---- MODULE Spec2Model ----
(***************************************************************************)
(* Model of the wine ETL scripts: etl_vins_fix.py (inner-join pipeline     *)
(* with a data-quality gate) and etl_vins.py / etl_vins2.py (left-join     *)
(* scripts with z-score classification and report export).                 *)
(*                                                                         *)
(* Tables are sequences of records (one record per row, row order kept).   *)
(* A CSV cell is a record [s, ws]: s is the cell's text without its        *)
(* surrounding whitespace, coded as an integer (s >= 0: the digits of that *)
(* number, s = NA: nothing, s <= -2: a text that is no number), ws says    *)
(* whether whitespace surrounds it.  A price cell is [w, f, sep]: the      *)
(* digits w, a separator and one fractional digit f.  Money is counted in  *)
(* tenths of a currency unit, so "10,5" parses to 105.                     *)
(***************************************************************************)
EXTENDS Integers, Sequences, FiniteSets, TLC

\* ------------------------------------------------------------------ cells

\* pandas' missing value (NaN / pd.NA) in a parsed column.
NA == -1

IsNA(v) == v = NA

\* A CSV cell holding the number n, an empty cell, a text cell.
Num(n) == [s |-> n, ws |-> FALSE]
Padded(n) == [s |-> n, ws |-> TRUE]
Empty == [s |-> NA, ws |-> FALSE]
Blank == [s |-> NA, ws |-> TRUE]
Text(k) == [s |-> -(k + 1), ws |-> FALSE]

\* pd.to_numeric(x, errors='coerce'): digits parse (whitespace around them is
\* ignored), anything else becomes NaN.
to_numeric(c) == IF c.s >= 0 THEN c.s ELSE NA

\* Series.fillna(0)
fillna0(v) == IF IsNA(v) THEN 0 ELSE v

\* A price cell: "w,f" / "w.f" / "w" / a text / nothing.
Price(w, f, sep) == [w |-> w, f |-> f, sep |-> sep]

\* .astype(str).str.replace(',', '.', regex=False)
replace_comma(p) == IF p.sep = "," THEN [p EXCEPT !.sep = "."] ELSE p

\* to_numeric(errors='coerce') of a price text, in tenths: only "w.f" and "w"
\* are numbers ("w,f" is not, 'nan' and texts are NaN).
price_to_numeric(p) ==
  CASE p.sep = "." -> 10 * p.w + p.f
    [] p.sep = "" -> 10 * p.w
    [] OTHER -> NA

\* ------------------------------------------------------------------ tables

Range(seq) == {seq[i] : i \in 1..Len(seq)}

RECURSIVE FlattenRange(_, _, _)
\* ss[lo] \o ... \o ss[hi], by halves
FlattenRange(ss, lo, hi) ==
  IF lo > hi THEN <<>>
  ELSE IF lo = hi THEN ss[lo]
  ELSE FlattenRange(ss, lo, (lo + hi) \div 2)
         \o FlattenRange(ss, (lo + hi) \div 2 + 1, hi)

\* The concatenation of a sequence of tables.
Flatten(ss) == FlattenRange(ss, 1, Len(ss))

RECURSIVE SumRange(_, _, _)
\* s[lo] + ... + s[hi], by halves
SumRange(s, lo, hi) ==
  IF lo > hi THEN 0
  ELSE IF lo = hi THEN s[lo]
  ELSE SumRange(s, lo, (lo + hi) \div 2) + SumRange(s, (lo + hi) \div 2 + 1, hi)

SumSeq(s) == SumRange(s, 1, Len(s))

\* Series.duplicated().sum(): rows whose key already occurred above them
\* (null keys count as equal to each other).
duplicated_sum(keys) == Len(keys) - Cardinality(Range(keys))

\* ------------------------------------------------ etl_vins_fix.py: constants

EXPECTED_CA == 705686

expected_count == 714

outlier_threshold == 3

\* ------------------------------------------------ etl_vins_fix.py: stage 1

\* clean_id_column on one cell: astype(str).str.strip(), then 'nan' and ''
\* become NaN.  The result is the stripped text (its integer code) or NA.
clean_id_cell(c) == IF c.s = NA THEN NA ELSE c.s

clean_id_column(df, col) ==
  [i \in 1..Len(df) |-> [df[i] EXCEPT ![col] = clean_id_cell(@)]]

\* to_numeric(errors='coerce') of a cleaned key text
key_to_numeric(s) == IF s >= 0 THEN s ELSE NA

\* The body of load_and_clean_data after the three reads succeeded.
load_and_clean_data(f) ==
  LET web1 == clean_id_column(f.web, "sku")
      lia1 == clean_id_column(f.liaison, "id_web")
      erp1 == clean_id_column(f.erp, "product_id")
      lia2 == clean_id_column(lia1, "product_id")
  IN [web |-> [i \in 1..Len(web1) |->
                 [web1[i] EXCEPT !.total_sales = fillna0(to_numeric(@))]],
      erp |-> [i \in 1..Len(erp1) |->
                 [erp1[i] EXCEPT
                    !.product_id = key_to_numeric(@),
                    !.price = price_to_numeric(replace_comma(@)),
                    !.stock_quantity = fillna0(to_numeric(@))]],
      liaison |-> [i \in 1..Len(lia2) |->
                 [lia2[i] EXCEPT !.product_id = key_to_numeric(@)]]]

\* ------------------------------------------------ joins

RECURSIVE GroupRange(_, _, _, _)
\* For the rows lo..hi of df: each value of column col, mapped to the
\* positions of the rows that hold it, in row order (by halves).
GroupRange(df, col, lo, hi) ==
  IF lo = hi THEN df[lo][col] :> <<lo>>
  ELSE LET a == GroupRange(df, col, lo, (lo + hi) \div 2)
           b == GroupRange(df, col, (lo + hi) \div 2 + 1, hi)
       IN [k \in DOMAIN a \cap DOMAIN b |-> a[k] \o b[k]] @@ a @@ b

\* The groups of equal keys of a join side: key -> row positions.  Null keys
\* form a group like any other.
group_by(df, col) ==
  IF Len(df) = 0 THEN <<>> ELSE GroupRange(df, col, 1, Len(df))

\* ------------------------------------------------ etl_vins_fix.py: stage 2

\* pd.merge(left, right, left_on=lk, right_on=rk, how='inner'): every pair of
\* rows with equal keys, in the order of the left rows; Row(l, r) builds the
\* joined row.  pandas matches null keys with each other.
merge_inner(left, right, lk, rk, Row(_, _)) ==
  LET g == group_by(right, rk)
  IN Flatten([i \in 1..Len(left) |->
       LET l == left[i]
           m == IF l[lk] \in DOMAIN g THEN g[l[lk]] ELSE <<>>
       IN [j \in 1..Len(m) |-> Row(l, right[m[j]])]])

\* df_web[df_web['post_type'] == 'product']
filter_products(df_web) == SelectSeq(df_web, LAMBDA r : r.post_type = "product")

\* df_liaison.dropna(subset=['id_web', 'product_id'])
dropna_liaison(df_liaison) ==
  SelectSeq(df_liaison, LAMBDA r : ~IsNA(r.id_web) /\ ~IsNA(r.product_id))

\* df_final.rename(columns={'product_id': 'product_id_erp'}, inplace=True)
rename_product_id(df) ==
  [i \in 1..Len(df) |->
    [product_id_erp |-> df[i].product_id, price |-> df[i].price,
     stock_quantity |-> df[i].stock_quantity, id_web |-> df[i].id_web,
     sku |-> df[i].sku, post_type |-> df[i].post_type,
     total_sales |-> df[i].total_sales]]

transform_and_join(df_web, df_erp, df_liaison) ==
  LET df_web_products == filter_products(df_web)
      df_liaison_clean == dropna_liaison(df_liaison)
      df_merged_erp_liaison ==
        merge_inner(df_erp, df_liaison_clean, "product_id", "product_id",
          LAMBDA e, l : [product_id |-> e.product_id, price |-> e.price,
                         stock_quantity |-> e.stock_quantity,
                         id_web |-> l.id_web])
      df_final ==
        merge_inner(df_merged_erp_liaison, df_web_products, "id_web", "sku",
          LAMBDA m, w : [product_id |-> m.product_id, price |-> m.price,
                         stock_quantity |-> m.stock_quantity,
                         id_web |-> m.id_web, sku |-> w.sku,
                         post_type |-> w.post_type,
                         total_sales |-> w.total_sales])
  IN [df_final |-> rename_product_id(df_final),
      df_web_products |-> df_web_products,
      df_erp |-> df_erp, df_liaison_clean |-> df_liaison_clean]

\* ------------------------------------------------ etl_vins_fix.py: stage 3

Abs(x) == IF x < 0 THEN -x ELSE x

\* np.isclose(a, b, atol=0.01) with numpy's default rtol=1e-05:
\*   |a - b| <= atol + rtol * |b|.
\* In tenths atol is 1/10 and the test, times 10^5, reads
\*   |a - b| * 10^5 <= 10^4 + |b|; for whole |a - b| that is the division below.
isclose(a, b) == Abs(a - b) <= (10000 + Abs(b)) \div 100000

\* price * total_sales of one row; a NaN price gives NaN.
row_ca(r) == IF IsNA(r.price) THEN NA ELSE r.price * r.total_sales

\* df_final['CA'] = df_final['price'] * df_final['total_sales'] (in place)
with_CA(df) ==
  [i \in 1..Len(df) |->
    [product_id_erp |-> df[i].product_id_erp, price |-> df[i].price,
     stock_quantity |-> df[i].stock_quantity, id_web |-> df[i].id_web,
     sku |-> df[i].sku, post_type |-> df[i].post_type,
     total_sales |-> df[i].total_sales, CA |-> row_ca(df[i])]]

\* Series.sum(): NaN values are skipped.
nansum(vals) == SumSeq([i \in 1..Len(vals) |-> fillna0(vals[i])])

calculated_ca(df) == nansum([i \in 1..Len(df) |-> row_ca(df[i])])

status_count(df) == IF Len(df) = expected_count THEN "SUCCES" ELSE "ECHEC"

is_ca_success(df) == isclose(calculated_ca(df), EXPECTED_CA)

\* The value run_data_quality_checks returns.
run_data_quality_checks(df) == status_count(df) = "SUCCES" /\ is_ca_success(df)

\* ------------------------------------------------ etl_vins_fix.py: audit

Column(df, col) == [i \in 1..Len(df) |-> df[i][col]]

\* Series.isin(values), values given as a set: membership; a NaN is found
\* among values that hold a NaN.
isin(v, vals) == v \in vals

\* The price population of a z-score: the non-null prices.
dropna_prices(df) == SelectSeq(Column(df, "price"), LAMBDA p : ~IsNA(p))

\* scipy.stats.zscore (population standard deviation, ddof = 0) of price p in
\* the population ps is (p - mean) / std = (n*p - S) / sqrt(n*Q - S*S) with
\* n = len, S = sum, Q = sum of squares: price_stats is [n, S, Q], z_num and
\* z_den2 are that numerator and the square of that denominator, exact in
\* integers.
price_stats(ps) ==
  [n |-> Len(ps), S |-> SumSeq(ps),
   Q |-> SumSeq([i \in 1..Len(ps) |-> ps[i] * ps[i]])]

z_num(p, st) == st.n * p - st.S

z_den2(st) == st.n * st.Q - st.S * st.S

\* np.abs(z) > t.  A constant or empty population has z = NaN, and NaN > t is
\* false.
abs_z_above(p, st, t) ==
  /\ z_den2(st) > 0
  /\ z_num(p, st) * z_num(p, st) > t * t * z_den2(st)

\* df_final.loc[outlier_indices]: the rows with a non-null price whose
\* |z-score| exceeds outlier_threshold.
price_outliers(df) ==
  LET st == price_stats(dropna_prices(df))
  IN SelectSeq(df, LAMBDA r :
       ~IsNA(r.price) /\ abs_z_above(r.price, st, outlier_threshold))

erp_without_web(df_erp_, df_liaison_clean_) ==
  LET linked == Range(Column(df_liaison_clean_, "product_id"))
  IN SelectSeq(df_erp_, LAMBDA r : ~isin(r.product_id, linked))

\* Mutant of web_without_erp: the web products that have a link.
web_with_erp(df_web_products_, df_liaison_clean_) ==
  LET linked == Range(Column(df_liaison_clean_, "id_web"))
  IN SelectSeq(df_web_products_, LAMBDA r : isin(r.sku, linked))

web_without_erp(df_web_products_, df_liaison_clean_) ==
  LET linked == Range(Column(df_liaison_clean_, "id_web"))
  IN SelectSeq(df_web_products_, LAMBDA r : ~isin(r.sku, linked))

\* What run_advanced_dq_checks computes: the two duplicate counts, the two
\* orphan tables and the outlier rows; it returns web_duplicates and
\* web_without_erp.
run_advanced_dq_checks(df_final_, df_web_products_, df_erp_, df_liaison_clean_) ==
  [erp_duplicates |-> duplicated_sum(Column(df_erp_, "product_id")),
   web_duplicates |-> duplicated_sum(Column(df_web_products_, "sku")),
   erp_without_web |-> erp_without_web(df_erp_, df_liaison_clean_),
   web_without_erp |-> web_without_erp(df_web_products_, df_liaison_clean_),
   outliers |-> price_outliers(df_final_)]

\* ------------------------------------------------ etl_vins_fix.py: stage 4

\* DataFrame.drop_duplicates(subset=[col], keep='first')
drop_duplicates(df, col) ==
  Flatten([i \in 1..Len(df) |->
    IF \A j \in 1..(i - 1) : df[j][col] # df[i][col] THEN <<df[i]>> ELSE <<>>])

\* Correction 1 of handle_anomalies: a local table, used for its length only.
df_web_products_cleaned(df_web_products_, web_duplicates_count_) ==
  IF web_duplicates_count_ > 0
  THEN drop_duplicates(df_web_products_, "sku")
  ELSE df_web_products_

\* Mutant of handle_anomalies: as many rows are dropped as the orphan list
\* has skus.
handle_anomalies_by_count(df_final_, df_web_products_, web_duplicates_count_, web_without_erp_df_) ==
  LET n == Len(web_without_erp_df_)
  IN IF n >= Len(df_final_) THEN <<>> ELSE SubSeq(df_final_, n + 1, Len(df_final_))

\* Correction 2 of handle_anomalies, and the table it returns.
handle_anomalies(df_final_, df_web_products_, web_duplicates_count_, web_without_erp_df_) ==
  LET critical_unlinked_skus == Column(web_without_erp_df_, "sku")
      unlinked == Range(critical_unlinked_skus)
  IN IF Len(critical_unlinked_skus) > 0
     THEN SelectSeq(df_final_, LAMBDA r : ~isin(r.sku, unlinked))
     ELSE df_final_

\* ------------------------------------------------ etl_vins.py, etl_vins2.py

seuil_millesime == 2

\* pd.merge(left, right, on=key, how='left'): every left row, in order, once
\* per right row with an equal key, or once with nulls when there is none.
\* pandas matches null keys with each other: a left row whose key is null is
\* joined to every right row whose key is null.
merge_left(left, right, lk, rk, Row(_, _), Alone(_)) ==
  LET g == group_by(right, rk)
  IN Flatten([i \in 1..Len(left) |->
       LET l == left[i]
       IN IF l[lk] \in DOMAIN g
          THEN [j \in 1..Len(g[l[lk]]) |-> Row(l, right[g[l[lk]][j]])]
          ELSE <<Alone(l)>>])

\* Mutant of dropna_price: the rows without price are kept.
dropna_price_keeps_all(df) == df

\* df_final.dropna(subset=['price'], inplace=True)
dropna_price(df) == SelectSeq(df, LAMBDA r : ~IsNA(r.price))

\* Series.fillna(0) on a column of cells
fillna0_cell(c) == IF c.s = NA THEN Num(0) ELSE c

\* Steps 2 to 4 of charger_et_joindre_donnees, after the three reads.  erp_ix
\* and web_ix are the positions of the inventory row and of the web row a
\* joined row was built from (0: no web row).
charger_et_joindre_donnees(f) ==
  LET erp == [i \in 1..Len(f.erp) |->
               [product_id |-> to_numeric(f.erp[i].product_id),
                price |-> f.erp[i].price,
                stock_quantity |-> f.erp[i].stock_quantity.s,
                erp_ix |-> i]]
      liaison == [i \in 1..Len(f.liaison) |->
               [product_id |-> to_numeric(f.liaison[i].product_id),
                id_web |-> to_numeric(f.liaison[i].id_web)]]
      df_web_sales == [i \in 1..Len(f.web) |->
               [id_web |-> to_numeric(f.web[i].sku),
                total_sales |-> f.web[i].total_sales,
                web_ix |-> i]]
      df_merged ==
        merge_left(erp, liaison, "product_id", "product_id",
          LAMBDA e, l : [product_id |-> e.product_id, price |-> e.price,
                         stock_quantity |-> e.stock_quantity,
                         erp_ix |-> e.erp_ix, id_web |-> l.id_web],
          LAMBDA e : [product_id |-> e.product_id, price |-> e.price,
                      stock_quantity |-> e.stock_quantity,
                      erp_ix |-> e.erp_ix, id_web |-> NA])
      joined ==
        merge_left(df_merged, df_web_sales, "id_web", "id_web",
          LAMBDA m, w : [product_id |-> m.product_id, price |-> m.price,
                         stock_quantity |-> m.stock_quantity,
                         erp_ix |-> m.erp_ix, id_web |-> m.id_web,
                         total_sales |-> w.total_sales, web_ix |-> w.web_ix],
          LAMBDA m : [product_id |-> m.product_id, price |-> m.price,
                      stock_quantity |-> m.stock_quantity,
                      erp_ix |-> m.erp_ix, id_web |-> m.id_web,
                      total_sales |-> Empty, web_ix |-> 0])
      cleaned == [i \in 1..Len(joined) |->
               [joined[i] EXCEPT
                  !.price = price_to_numeric(replace_comma(@)),
                  !.total_sales = to_numeric(fillna0_cell(@))]]
  IN dropna_price(cleaned)

\* Series.std() == 0 of pandas (sample standard deviation over the non-null
\* values): NaN, so not 0, for fewer than two values.
std_is_zero(ps) == Len(ps) >= 2 /\ z_den2(price_stats(ps)) = 0

\* A z-score: NaN, or num / sqrt(den2).
ZNaN == [nan |-> TRUE, num |-> 0, den2 |-> 1]

ZVal(num, den2) == [nan |-> FALSE, num |-> num, den2 |-> den2]

\* scipy.stats.zscore(df['price']) at one row (nan_policy 'propagate': one
\* NaN price makes every z-score NaN; a population without spread gives 0/0).
zscore(p, col) ==
  LET st == price_stats(col)
  IN IF (\E i \in 1..Len(col) : IsNA(col[i])) \/ z_den2(st) = 0
     THEN ZNaN
     ELSE ZVal(z_num(p, st), z_den2(st))

\* Mutant of z_above: z >= t.
z_at_least(z, t) == ~z.nan /\ z.num > 0 /\ z.num * z.num >= t * t * z.den2

\* z > t (false for NaN)
z_above(z, t) == ~z.nan /\ z.num > 0 /\ z.num * z.num > t * t * z.den2

\* price * total_sales of one row; NaN when either is.
ca_produit(r) ==
  IF IsNA(r.price) \/ IsNA(r.total_sales) THEN NA ELSE r.price * r.total_sales

\* transformer_et_enrichir_donnees: the table with its three new columns.
transformer_et_enrichir_donnees(df) ==
  LET col == Column(df, "price")
      zero == std_is_zero(SelectSeq(col, LAMBDA p : ~IsNA(p)))
  IN [i \in 1..Len(df) |->
       LET z == IF zero THEN ZVal(0, 1) ELSE zscore(df[i].price, col)
       IN [product_id |-> df[i].product_id, price |-> df[i].price,
           stock_quantity |-> df[i].stock_quantity, erp_ix |-> df[i].erp_ix,
           id_web |-> df[i].id_web, total_sales |-> df[i].total_sales,
           web_ix |-> df[i].web_ix,
           CA_produit |-> ca_produit(df[i]),
           Z_Score_Prix |-> z,
           est_millesime |-> z_above(z, seuil_millesime)]]

\* DataFrame.sort_values: rows ordered by Before(a, b), rows that tie keep
\* their order.  A row's place is the number of rows that come before it.
sort_values(df, Before(_, _)) ==
  LET place(i) ==
        Cardinality({j \in 1..Len(df) :
          \/ Before(df[j], df[i])
          \/ ~Before(df[i], df[j]) /\ j < i})
  IN [k \in 1..Len(df) |-> df[CHOOSE i \in 1..Len(df) : place(i) = k - 1]]

\* by='Z_Score_Prix', ascending=False (z-scores of one table share den2)
z_descending(a, b) == a.Z_Score_Prix.num > b.Z_Score_Prix.num

\* by='product_id': ascending, nulls last
product_id_ascending(a, b) ==
  /\ ~IsNA(a.product_id)
  /\ IsNA(b.product_id) \/ a.product_id < b.product_id

\* df[cols_export] / df[millesimes_cols]
export_columns(df) ==
  [i \in 1..Len(df) |->
    [product_id |-> df[i].product_id, id_web |-> df[i].id_web,
     price |-> df[i].price, total_sales |-> df[i].total_sales,
     CA_produit |-> df[i].CA_produit, Z_Score_Prix |-> df[i].Z_Score_Prix]]

\* df[incoherents_cols] of the rows without web identity, by product_id
df_incoherents(df) ==
  LET sel == SelectSeq(df, LAMBDA r : IsNA(r.id_web))
  IN sort_values([i \in 1..Len(sel) |->
                   [product_id |-> sel[i].product_id, price |-> sel[i].price,
                    stock_quantity |-> sel[i].stock_quantity]],
                 product_id_ascending)

\* exporter_rapports of etl_vins.py: the files written and their rows.
exporter_rapports(df) ==
  ("rapport_vins_millesimes.xlsx" :>
     sort_values(export_columns(SelectSeq(df, LAMBDA r : r.est_millesime)),
                 z_descending))
  @@ ("produits_sans_lien_web.xlsx" :> df_incoherents(df))

\* exporter_rapports of etl_vins2.py
exporter_rapports2(df) ==
  LET df_premium ==
        SelectSeq(df, LAMBDA r : z_above(r.Z_Score_Prix, seuil_millesime))
      df_ordinaire ==
        SelectSeq(df, LAMBDA r : ~r.Z_Score_Prix.nan
                                  /\ ~z_above(r.Z_Score_Prix, seuil_millesime))
  IN ("rapport_ca_produit.xlsx" :>
        [i \in 1..Len(df) |->
          [product_id |-> df[i].product_id, price |-> df[i].price,
           total_sales |-> df[i].total_sales, CA_produit |-> df[i].CA_produit]])
     @@ ("vins_premium.csv" :> export_columns(df_premium))
     @@ ("vins_ordinaires.csv" :> export_columns(df_ordinaire))
     @@ ("rapport_vins_millesimes.xlsx" :> export_columns(df_premium))
     @@ ("produits_sans_lien_web.xlsx" :> df_incoherents(df))

\* ------------------------------------------------ input files

\* The number of extra rows an input file holds besides its well-formed rows.
MaxExtra == 1

\* A well-formed data set of n linked products: inventory row i is product
\* i, linked to the web product with sku 1000 + i.  Row 1 carries the sales
\* (352830 items at 2 tenths), row 2 sells b items at 1 tenth, row 3 costs p3
\* tenths; some cells are padded with whitespace, prices use "," or ".".
\* Besides, the inventory has a product without link and a row without id
\* and price, and the linkage has three links with a missing or unparseable
\* key.
base_erp(n, p3) ==
  [i \in 1..n |->
    [product_id |-> IF i = 4 THEN Padded(i) ELSE Num(i),
     price |-> CASE i = 1 -> Price(0, 2, ",")
                 [] i = 2 -> Price(0, 1, ".")
                 [] i = 3 -> Price(p3 \div 10, p3 % 10, ",")
                 [] OTHER -> IF i % 2 = 0 THEN Price(0, 1, ",") ELSE Price(0, 3, ","),
     stock_quantity |-> Num(5)]]
  \o << [product_id |-> Num(9000), price |-> Price(0, 2, "."), stock_quantity |-> Empty],
        [product_id |-> Blank, price |-> Price(0, 0, "txt"), stock_quantity |-> Num(1)] >>

base_web(n, b) ==
  [i \in 1..n |->
    [sku |-> IF i = 5 THEN Padded(1000 + i) ELSE Num(1000 + i),
     post_type |-> "product",
     total_sales |-> CASE i = 1 -> Num(352830) [] i = 2 -> Num(b) [] OTHER -> Empty]]

base_liaison(n) ==
  [i \in 1..n |-> [product_id |-> Num(i),
                   id_web |-> IF i = 6 THEN Padded(1000 + i) ELSE Num(1000 + i)]]
  \o << [product_id |-> Num(9000), id_web |-> Empty],
        [product_id |-> Blank, id_web |-> Num(1009)],
        [product_id |-> Text(3), id_web |-> Num(1010)] >>

\* Rows a web file may hold besides: a second row for sku 1007, an attachment
\* of sku 1008, a product no inventory row is linked to, a product without sku.
extra_web_rows ==
  { [sku |-> Num(1007), post_type |-> "product", total_sales |-> Num(0)],
    [sku |-> Num(1008), post_type |-> "attachment", total_sales |-> Num(9)],
    [sku |-> Text(1), post_type |-> "product", total_sales |-> Num(4)],
    [sku |-> Blank, post_type |-> "product", total_sales |-> Text(2)] }

\* The sequences of at most n rows of a set of rows.
RECURSIVE SeqsUpTo(_, _)
SeqsUpTo(rows, n) ==
  IF n = 0 THEN {<<>>}
  ELSE SeqsUpTo(rows, n - 1) \cup
       UNION {{Append(s, r) : r \in rows \ Range(s)} :
                s \in {t \in SeqsUpTo(rows, n - 1) : Len(t) = n - 1}}

\* Sales of row 2 that put the revenue total at EXPECTED_CA (26), 0.1 above
\* it (27) and 0.8 above it (34).
adjust_sales == {26, 27, 34}

\* Input of the left-join scripts: short files.
MaxErp == 2

MaxWeb == 2

MaxLiaison == 1

\* Inventory rows: two products at 10.0 (one written "10,0", one "10.0"), one
\* at 12.5, one whose price is no number.
left_erp_rows ==
  { [product_id |-> Num(1), price |-> Price(10, 0, ","), stock_quantity |-> Num(5)],
    [product_id |-> Num(2), price |-> Price(10, 0, "."), stock_quantity |-> Empty],
    [product_id |-> Num(3), price |-> Price(12, 5, ","), stock_quantity |-> Num(3)],
    [product_id |-> Num(4), price |-> Price(0, 0, "txt"), stock_quantity |-> Num(1)] }

\* Web rows: product 1, an attachment with the same sku, a product whose sku
\* is a text.
left_web_rows ==
  { [sku |-> Num(1), post_type |-> "product", total_sales |-> Num(4)],
    [sku |-> Num(1), post_type |-> "attachment", total_sales |-> Num(5)],
    [sku |-> Text(1), post_type |-> "product", total_sales |-> Num(3)] }

\* Links: product 1 to sku 1, product 3 to nothing.
left_liaison_rows ==
  { [product_id |-> Num(1), id_web |-> Num(1)],
    [product_id |-> Num(3), id_web |-> Empty] }

\* The tables of at most n rows drawn from a set of rows (a row may repeat).
RECURSIVE TablesUpTo(_, _)
TablesUpTo(rows, n) ==
  IF n = 0 THEN {<<>>}
  ELSE TablesUpTo(rows, n - 1) \cup
       {Append(t, r) : t \in {u \in TablesUpTo(rows, n - 1) : Len(u) = n - 1},
                       r \in rows}

\* An inventory of products 1..Len(prices) with the given prices in whole
\* units, product 1 linked to the web product 1.
priced_inventory(prices) ==
  [web |-> << [sku |-> Num(1), post_type |-> "product", total_sales |-> Num(2)] >>,
   erp |-> [i \in 1..Len(prices) |->
             [product_id |-> Num(i), price |-> Price(prices[i], 0, ","),
              stock_quantity |-> Num(1)]],
   liaison |-> << [product_id |-> Num(1), id_web |-> Num(1)] >>]

\* Scenario D of the specification, and populations with one and with two
\* prices far above the others.
scenario_prices ==
  { <<10, 10, 10, 10, 1000>>,
    <<1, 1, 1, 1, 1, 9>>,
    <<1, 8, 1, 1, 1, 1, 1, 1, 1, 1, 1, 9>> }

\* The columns of the web file the pipeline reads.
all_web_columns == {"sku", "post_type", "total_sales", "post_title"}

\* ------------------------------------------------ state

VARIABLES
  script,       \* the script that runs
  files,        \* the rows of the three CSV files
  readable,     \* the files pd.read_csv can read
  web_columns,  \* the columns the web file has
  pc,           \* where the script is
  ran,          \* the stages entered so far
  exit_code,    \* the exit status of the process, NA while it runs
  df_web, df_erp, df_liaison,      \* what load_and_clean_data returned
  df_final, df_web_products, df_liaison_clean,  \* what transform_and_join returned
  dq,           \* what run_data_quality_checks returned: "pass", "fail"
  audit,        \* what run_advanced_dq_checks computed
  df_migratable,\* what handle_anomalies returned
  raised,       \* an exception reached the except clause of etl_pipeline
  df_coherent,  \* etl_vins, etl_vins2: the table of the script
  reports,      \* etl_vins, etl_vins2: the files written, with their rows
  df_migratable_again  \* what handle_anomalies returns for its own output

\* The input, the tables of etl_pipeline, those of the left-join scripts
input_vars == <<script, files, readable, web_columns, df_migratable_again>>

loaded_vars == <<df_web, df_erp, df_liaison>>

joined_vars == <<df_web_products, df_liaison_clean>>

left_vars == <<df_coherent, reports>>

vars == <<input_vars, pc, ran, exit_code, loaded_vars, df_final, joined_vars,
          dq, audit, df_migratable, raised, left_vars>>

file_names == {"web", "erp", "liaison"}

data_set(n, b, p3, xw) ==
  [web |-> base_web(n, b) \o xw, erp |-> base_erp(n, p3),
   liaison |-> base_liaison(n)]

no_audit ==
  [erp_duplicates |-> 0, web_duplicates |-> 0, erp_without_web |-> <<>>,
   web_without_erp |-> <<>>, outliers |-> <<>>]

FixIdle ==
  /\ df_web = <<>> /\ df_erp = <<>> /\ df_liaison = <<>>
  /\ df_final = <<>> /\ df_web_products = <<>> /\ df_liaison_clean = <<>>
  /\ dq = "none"
  /\ audit = no_audit
  /\ df_migratable = <<>>
  /\ df_migratable_again = <<>>
  /\ raised = FALSE

LeftIdle == df_coherent = <<>> /\ reports = <<>>

Init ==
  /\ script = "etl_vins_fix"
  /\ \/ /\ \E n \in {expected_count - 1, expected_count}, b \in adjust_sales,
              p3 \in {3, 50}, xw \in SeqsUpTo(extra_web_rows, MaxExtra) :
             files = data_set(n, b, p3, xw)
        /\ readable = file_names
        /\ web_columns \in {all_web_columns, all_web_columns \ {"post_title"}}
     \/ /\ files = data_set(expected_count, 26, 3, <<>>)
        /\ \/ /\ readable \in {file_names \ {f} : f \in file_names}
              /\ web_columns = all_web_columns
           \/ /\ readable = file_names
              /\ web_columns = all_web_columns \ {"post_type"}
  /\ pc = "start"
  /\ ran = {}
  /\ exit_code = NA
  /\ FixIdle
  /\ LeftIdle

InitLeft ==
  /\ script \in {"etl_vins", "etl_vins2"}
  /\ \/ /\ \E e \in TablesUpTo(left_erp_rows, MaxErp),
              w \in TablesUpTo(left_web_rows, MaxWeb),
              l \in TablesUpTo(left_liaison_rows, MaxLiaison) :
             files = [web |-> w, erp |-> e, liaison |-> l]
        /\ readable = file_names
     \/ /\ \E ps \in scenario_prices : files = priced_inventory(ps)
        /\ readable \in {file_names} \cup {file_names \ {f} : f \in file_names}
  /\ web_columns = all_web_columns
  /\ pc = "start"
  /\ ran = {}
  /\ exit_code = NA
  /\ FixIdle
  /\ LeftIdle

\* ------------------------------------------------ etl_pipeline

\* Mutant of Load: the read error is printed and the pipeline goes on.
Load_goes_on ==
  /\ script = "etl_vins_fix"
  /\ pc = "start"
  /\ ran' = ran \cup {"load_and_clean_data"}
  /\ IF readable # file_names
     THEN UNCHANGED loaded_vars
     ELSE LET c == load_and_clean_data(files)
          IN /\ df_web' = c.web
             /\ df_erp' = c.erp
             /\ df_liaison' = c.liaison
  /\ pc' = "loaded"
  /\ UNCHANGED <<input_vars, exit_code, df_final, joined_vars, dq, audit,
                 df_migratable, raised, left_vars>>

\* Stage 1.  A file that cannot be read ends the process: sys.exit(1) raises
\* SystemExit, which the "except Exception" clause of etl_pipeline lets pass.
Load ==
  /\ script = "etl_vins_fix"
  /\ pc = "start"
  /\ ran' = ran \cup {"load_and_clean_data"}
  /\ IF readable # file_names
     THEN /\ pc' = "done"
          /\ exit_code' = 1
          /\ UNCHANGED loaded_vars
     ELSE /\ LET c == load_and_clean_data(files)
             IN /\ df_web' = c.web
                /\ df_erp' = c.erp
                /\ df_liaison' = c.liaison
          /\ pc' = "loaded"
          /\ UNCHANGED exit_code
  /\ UNCHANGED <<input_vars, df_final, joined_vars, dq, audit, df_migratable,
                 raised, left_vars>>

\* Stage 2.  df_web['post_type'] raises KeyError when the web file has no
\* such column; the except clause of etl_pipeline catches it.
Transform ==
  /\ script = "etl_vins_fix"
  /\ pc = "loaded"
  /\ ran' = ran \cup {"transform_and_join"}
  /\ IF "post_type" \notin web_columns
     THEN /\ raised' = TRUE
          /\ pc' = "fin"
          /\ UNCHANGED <<df_final, joined_vars>>
     ELSE /\ LET t == transform_and_join(df_web, df_erp, df_liaison)
             IN /\ df_final' = t.df_final
                /\ df_web_products' = t.df_web_products
                /\ df_liaison_clean' = t.df_liaison_clean
          /\ pc' = "joined"
          /\ UNCHANGED raised
  /\ UNCHANGED <<input_vars, exit_code, loaded_vars, dq, audit, df_migratable,
                 left_vars>>

\* Mutant of DataQuality: the result of the gate is reported, not acted on.
DataQuality_goes_on ==
  /\ script = "etl_vins_fix"
  /\ pc = "joined"
  /\ ran' = ran \cup {"run_data_quality_checks"}
  /\ df_final' = with_CA(df_final)
  /\ dq' = IF run_data_quality_checks(df_final) THEN "pass" ELSE "fail"
  /\ pc' = "gate_passed"
  /\ UNCHANGED <<input_vars, exit_code, loaded_vars, joined_vars, audit,
                 df_migratable, raised, left_vars>>

\* Stage 3, the gate: run_data_quality_checks writes the CA column into
\* df_final; on False etl_pipeline prints the halt message and returns, and
\* the process ends normally.
DataQuality ==
  /\ script = "etl_vins_fix"
  /\ pc = "joined"
  /\ ran' = ran \cup {"run_data_quality_checks"}
  /\ df_final' = with_CA(df_final)
  /\ IF run_data_quality_checks(df_final)
     THEN dq' = "pass" /\ pc' = "gate_passed" /\ UNCHANGED exit_code
     ELSE dq' = "fail" /\ pc' = "done" /\ exit_code' = 0
  /\ UNCHANGED <<input_vars, loaded_vars, joined_vars, audit, df_migratable,
                 raised, left_vars>>

\* Stage 3, the audit.  With outliers found, the preview selects the column
\* post_title: KeyError when the web file has none.
Advanced ==
  /\ script = "etl_vins_fix"
  /\ pc = "gate_passed"
  /\ ran' = ran \cup {"run_advanced_dq_checks"}
  /\ LET a == run_advanced_dq_checks(df_final, df_web_products, df_erp,
                                     df_liaison_clean)
     IN IF Len(a.outliers) > 0 /\ "post_title" \notin web_columns
        THEN raised' = TRUE /\ pc' = "fin" /\ UNCHANGED audit
        ELSE audit' = a /\ pc' = "audited" /\ UNCHANGED raised
  /\ UNCHANGED <<input_vars, exit_code, loaded_vars, df_final, joined_vars, dq,
                 df_migratable, left_vars>>

\* Stage 4.
Handle ==
  /\ script = "etl_vins_fix"
  /\ pc = "audited"
  /\ ran' = ran \cup {"handle_anomalies"}
  /\ df_migratable' = handle_anomalies(df_final, df_web_products,
                                       audit.web_duplicates, audit.web_without_erp)
  /\ pc' = "remediated"
  /\ UNCHANGED <<input_vars, exit_code, loaded_vars, df_final, joined_vars, dq,
                 audit, raised, left_vars>>

\* Stage 5: the data set is announced as ready for the migration.
Ready ==
  /\ script = "etl_vins_fix"
  /\ pc = "remediated"
  /\ ran' = ran \cup {"ready_for_migration"}
  /\ pc' = "fin"
  /\ UNCHANGED <<input_vars, exit_code, loaded_vars, df_final, joined_vars, dq,
                 audit, df_migratable, raised, left_vars>>

\* After the try statement: the closing line is printed, etl_pipeline returns
\* and the process ends normally.
Fin ==
  /\ script = "etl_vins_fix"
  /\ pc = "fin"
  /\ pc' = "done"
  /\ exit_code' = 0
  /\ UNCHANGED <<input_vars, ran, loaded_vars, df_final, joined_vars, dq, audit,
                 df_migratable, raised, left_vars>>

Next == Load \/ Transform \/ DataQuality \/ Advanced \/ Handle \/ Ready \/ Fin

Spec == Init /\ [][Next]_vars

\* ------------------------------------------------ etl_vins.py, etl_vins2.py: main

fix_vars == <<web_columns, loaded_vars, df_final, joined_vars, dq, audit,
              df_migratable, df_migratable_again, raised>>

\* Phase 1.  A file that cannot be read makes charger_et_joindre_donnees
\* print the error and return None; the script then does nothing more.
Charger ==
  /\ script \in {"etl_vins", "etl_vins2"}
  /\ pc = "start"
  /\ ran' = ran \cup {"charger_et_joindre_donnees"}
  /\ IF readable # file_names
     THEN pc' = "done" /\ exit_code' = 0 /\ UNCHANGED df_coherent
     ELSE /\ df_coherent' = charger_et_joindre_donnees(files)
          /\ pc' = "charged"
          /\ UNCHANGED exit_code
  /\ UNCHANGED <<files, readable, script, reports, fix_vars>>

\* Phase 2: the new columns are written into the table it was given.
Transformer ==
  /\ script \in {"etl_vins", "etl_vins2"}
  /\ pc = "charged"
  /\ ran' = ran \cup {"transformer_et_enrichir_donnees"}
  /\ df_coherent' = transformer_et_enrichir_donnees(df_coherent)
  /\ pc' = "enriched"
  /\ UNCHANGED <<files, readable, script, reports, exit_code, fix_vars>>

\* Phase 3 of etl_vins.py, and the end of the script.
Exporter ==
  /\ script = "etl_vins"
  /\ pc = "enriched"
  /\ ran' = ran \cup {"exporter_rapports"}
  /\ reports' = exporter_rapports(df_coherent)
  /\ pc' = "done"
  /\ exit_code' = 0
  /\ UNCHANGED <<files, readable, script, df_coherent, fix_vars>>

\* Phase 3 of etl_vins2.py, and the end of the script.
Exporter2 ==
  /\ script = "etl_vins2"
  /\ pc = "enriched"
  /\ ran' = ran \cup {"exporter_rapports"}
  /\ reports' = exporter_rapports2(df_coherent)
  /\ pc' = "done"
  /\ exit_code' = 0
  /\ UNCHANGED <<files, readable, script, df_coherent, fix_vars>>

NextLeft == Charger \/ Transformer \/ Exporter \/ Exporter2

SpecLeft == InitLeft /\ [][NextLeft]_vars

\* Every script on every input.
InitAll == Init \/ InitLeft

NextAll == Next \/ NextLeft

SpecAll == InitAll /\ [][NextAll]_vars

\* ------------------------------------------------ properties

later_stages == {"run_advanced_dq_checks", "handle_anomalies", "ready_for_migration"}

\* C1: when run_data_quality_checks returns False, the run ends there: the
\* audit, the remediation and the ready-for-migration step are never entered
\* and their results are never produced.
C1_GateFailClosed ==
  dq = "fail" =>
    /\ ran \cap later_stages = {}
    /\ pc = "done"
    /\ audit = no_audit
    /\ df_migratable = <<>>

\* A run the gate stopped for its revenue total alone.
C1_Witness ==
  /\ dq = "fail"
  /\ pc = "done"
  /\ Len(df_final) = expected_count

\* C2: a revenue total more than 0.01 away from EXPECTED_CA (more than 1/10
\* of a tenth) makes the gate return False.
C2_AbsoluteTolerance ==
  (dq # "none" /\ 10 * Abs(calculated_ca(df_final) - EXPECTED_CA) > 1)
    => dq = "fail"

\* C3: the table handle_anomalies returns holds each sku at most once, and
\* only skus of the cleaned linkage table.
C3_MigratableUniqueAndLinked ==
  "handle_anomalies" \in ran =>
    /\ Cardinality(Range(Column(df_migratable, "sku"))) = Len(df_migratable)
    /\ Range(Column(df_migratable, "sku"))
         \subseteq Range(Column(df_liaison_clean, "id_web"))

\* C4: in every script, a row of the joined table that was matched to a web
\* row was matched to a web row whose post_type is "product".
C4_FilterInvariant ==
  /\ \A i \in 1..Len(df_final) : df_final[i].post_type = "product"
  /\ \A i \in 1..Len(df_coherent) :
       df_coherent[i].web_ix # 0
         => files.web[df_coherent[i].web_ix].post_type = "product"

\* The product ids the linkage file has a row for.
linked_product_ids ==
  {to_numeric(files.liaison[k].product_id) : k \in 1..Len(files.liaison)}

\* C5: in the left-join scripts, a row of an inventory product without
\* linkage row is matched to no web row and has total_sales 0 and revenue 0.
C5_UnlinkedInventoryZeroSales ==
  pc \in {"enriched", "done"} =>
    \A i \in 1..Len(df_coherent) :
      to_numeric(files.erp[df_coherent[i].erp_ix].product_id)
          \notin linked_product_ids
        => /\ df_coherent[i].web_ix = 0
           /\ df_coherent[i].total_sales = 0
           /\ df_coherent[i].CA_produit = 0

\* C6: a non-empty table whose prices are all equal (a single row too) gets
\* the z-score 0 in every row, and no row is flagged.
C6_EqualPricesZeroZScore ==
  (/\ pc \in {"enriched", "done"}
   /\ df_coherent # <<>>
   /\ \A i, j \in 1..Len(df_coherent) : df_coherent[i].price = df_coherent[j].price)
    => \A i \in 1..Len(df_coherent) :
         /\ df_coherent[i].Z_Score_Prix = ZVal(0, 1)
         /\ ~df_coherent[i].est_millesime

ScenarioD == priced_inventory(<<10, 10, 10, 10, 1000>>)

millesimes == "rapport_vins_millesimes.xlsx"

\* C7 as stated: in scenario D the row priced 1000 is flagged, alone, and is
\* the first row of the outlier report.
C7_ScenarioD_Flagged ==
  (files = ScenarioD /\ readable = file_names /\ pc = "done") =>
    /\ df_coherent[5].est_millesime
    /\ \A i \in 1..4 : ~df_coherent[i].est_millesime
    /\ Len(reports[millesimes]) >= 1
    /\ reports[millesimes][1].product_id = 5

\* C7 amended: in scenario D the z-score of the row priced 1000 is exactly
\* the threshold 2 and the highest of the table; no row is flagged and the
\* outlier report is empty.
C7_ScenarioD_AtThreshold ==
  (files = ScenarioD /\ readable = file_names /\ pc \in {"enriched", "done"}) =>
    /\ Len(df_coherent) = 5
    /\ LET z == df_coherent[5].Z_Score_Prix
       IN /\ ~z.nan
          /\ z.num > 0
          /\ z.num * z.num = seuil_millesime * seuil_millesime * z.den2
          /\ \A i \in 1..4 : df_coherent[i].Z_Score_Prix.num < z.num
    /\ \A i \in 1..5 : ~df_coherent[i].est_millesime
    /\ pc = "done" => reports[millesimes] = <<>>

C7_Witness ==
  /\ files = ScenarioD
  /\ pc = "done"
  /\ script = "etl_vins"
  /\ millesimes \in DOMAIN reports

\* The inventory rows whose price is null or no number.
null_price_rows ==
  {i \in 1..Len(files.erp) : IsNA(price_to_numeric(replace_comma(files.erp[i].price)))}

C9_ExceptionGivesFailureStatus ==
  (pc = "done" /\ raised) => exit_code # 0

\* C10: when one of the three files cannot be read, no stage after the load
\* is entered, nothing is joined, checked, remediated or exported, and
\* etl_pipeline's process exits with status 1 past the except clause.
C10_LoadErrorAborts ==
  readable # file_names =>
    /\ ran \subseteq {"load_and_clean_data", "charger_et_joindre_donnees"}
    /\ df_final = <<>> /\ df_coherent = <<>>
    /\ dq = "none" /\ audit = no_audit /\ df_migratable = <<>>
    /\ reports = <<>>
    /\ (pc = "done" /\ script = "etl_vins_fix") => (exit_code = 1 /\ ~raised)

C10_Witness ==
  /\ readable # file_names
  /\ script = "etl_vins_fix"
  /\ pc = "done"

\* C11: a run of etl_pipeline whose gate passed does not end before it has
\* gone through handle_anomalies and the ready-for-migration step, whatever
\* run_advanced_dq_checks found.
C11_SoftChecksNeverHalt ==
  (pc = "done" /\ dq = "pass")
    => {"run_advanced_dq_checks", "handle_anomalies", "ready_for_migration"}
         \subseteq ran

\* The table etl_vins ends with, once charger_et_joindre_donnees returned it.
etl_vins_table_built ==
  /\ script = "etl_vins"
  /\ pc \in {"charged", "enriched", "done"}

\* The inventory file holds no product_id twice.
inventory_ids_unique ==
  \A i, j \in 1..Len(files.erp) :
    i # j => to_numeric(files.erp[i].product_id) # to_numeric(files.erp[j].product_id)

\* C12: the final table of etl_vins holds no two rows with the same
\* product_id (here even for an inventory file without repeated product_id).
C12_NoDuplicateProductId ==
  (etl_vins_table_built /\ inventory_ids_unique) =>
    \A i, j \in 1..Len(df_coherent) :
      i # j => df_coherent[i].product_id # df_coherent[j].product_id

\* C13: in the final table of etl_vins no row has a missing product_id,
\* id_web, price or stock_quantity.
C13_NoCriticalMissingValues ==
  etl_vins_table_built =>
    \A i \in 1..Len(df_coherent) :
      /\ ~IsNA(df_coherent[i].product_id)
      /\ ~IsNA(df_coherent[i].id_web)
      /\ ~IsNA(df_coherent[i].price)
      /\ ~IsNA(df_coherent[i].stock_quantity)

\* ------------------------------------------------ handle_anomalies, applied twice

\* The number of rows of the tables handle_anomalies is applied to.
MaxRemedy == 2

\* Rows of a reconciled table: two products of sku 1001, one of sku 1002.
reconciled_rows ==
  { [product_id_erp |-> 1, sku |-> 1001, price |-> 100, total_sales |-> 2],
    [product_id_erp |-> 2, sku |-> 1001, price |-> 120, total_sales |-> 0],
    [product_id_erp |-> 3, sku |-> 1002, price |-> 90, total_sales |-> 1] }

\* Rows of an orphan list: web products of sku 1001 and of no sku.
orphan_rows ==
  { [sku |-> 1001, post_type |-> "product", total_sales |-> 2],
    [sku |-> NA, post_type |-> "product", total_sales |-> 0] }

\* handle_anomalies is called on any reconciled table, web product table,
\* duplicate count and orphan list.
InitRemedy ==
  /\ script = "handle_anomalies"
  /\ files = [web |-> <<>>, erp |-> <<>>, liaison |-> <<>>]
  /\ readable = file_names
  /\ web_columns = all_web_columns
  /\ pc = "start"
  /\ ran = {}
  /\ exit_code = NA
  /\ df_web = <<>> /\ df_erp = <<>> /\ df_liaison = <<>> /\ df_liaison_clean = <<>>
  /\ dq = "none"
  /\ raised = FALSE
  /\ LeftIdle
  /\ df_final \in TablesUpTo(reconciled_rows, MaxRemedy)
  /\ df_web_products \in TablesUpTo(orphan_rows, 1)
  /\ \E d \in {0, 1}, o \in TablesUpTo(orphan_rows, MaxRemedy) :
       audit = [no_audit EXCEPT !.web_duplicates = d, !.web_without_erp = o]
  /\ df_migratable = <<>>
  /\ df_migratable_again = <<>>

remedy_frame ==
  <<script, files, readable, web_columns, exit_code, loaded_vars, df_final,
    joined_vars, dq, audit, raised, left_vars>>

\* df_migratable = handle_anomalies(df_final, ...)
Remediate ==
  /\ script = "handle_anomalies"
  /\ pc = "start"
  /\ df_migratable' = handle_anomalies(df_final, df_web_products,
                                       audit.web_duplicates, audit.web_without_erp)
  /\ ran' = ran \cup {"handle_anomalies"}
  /\ pc' = "once"
  /\ UNCHANGED <<remedy_frame, df_migratable_again>>

\* handle_anomalies(df_migratable, ...), with the same other arguments
RemediateAgain ==
  /\ script = "handle_anomalies"
  /\ pc = "once"
  /\ df_migratable_again' = handle_anomalies(df_migratable, df_web_products,
                                             audit.web_duplicates, audit.web_without_erp)
  /\ pc' = "twice"
  /\ UNCHANGED <<remedy_frame, ran, df_migratable>>

NextRemedy == Remediate \/ RemediateAgain

SpecRemedy == InitRemedy /\ [][NextRemedy]_vars

\* C14: handle_anomalies applied to its own output, with the same web table,
\* duplicate count and orphan list, returns that output unchanged.
C14_RemediationIdempotent ==
  pc = "twice" => df_migratable_again = df_migratable

\* A second application after a first one that removed some rows, not all.
C14_Witness ==
  /\ pc = "twice"
  /\ df_migratable # <<>>
  /\ Len(df_migratable) < Len(df_final)

\* C15: the reconciled table stays as the stage that built it returned it:
\* in etl_pipeline df_final is what transform_and_join returned, whatever
\* stage ran since, and in the left-join scripts the table
\* charger_et_joindre_donnees returned is unchanged after
\* transformer_et_enrichir_donnees.
C15_EarlierTablesUnchanged ==
  /\ (script = "etl_vins_fix" /\ "transform_and_join" \in ran /\ df_final # <<>>)
       => df_final = transform_and_join(df_web, df_erp, df_liaison).df_final
  /\ (script \in {"etl_vins", "etl_vins2"} /\ readable = file_names
        /\ pc \in {"charged", "enriched", "done"})
       => df_coherent = charger_et_joindre_donnees(files)

\* The exported files whose rows are outliers.
outlier_files == {"rapport_vins_millesimes.xlsx", "vins_premium.csv"}

unlinked_file == "produits_sans_lien_web.xlsx"

\* C16: in every exported outlier file the z-scores never increase from one
\* row to the next, and in every exported unlinked-inventory file the
\* product_id never decreases (rows without product_id come last).
C16_ReportsSorted ==
  /\ \A f \in outlier_files \cap DOMAIN reports :
       \A i, j \in 1..Len(reports[f]) :
         i < j => reports[f][i].Z_Score_Prix.num >= reports[f][j].Z_Score_Prix.num
  /\ unlinked_file \in DOMAIN reports =>
       \A i, j \in 1..Len(reports[unlinked_file]) :
         i < j => ~product_id_ascending(reports[unlinked_file][j],
                                        reports[unlinked_file][i])

\* C17: in etl_pipeline handle_anomalies removes no row: the migratable
\* table has the rows of the reconciled table, none of them with a sku of
\* the orphan list, and expected_count of them.
C17_OrphanExclusionRemovesNothing ==
  (script = "etl_vins_fix" /\ "handle_anomalies" \in ran) =>
    /\ df_migratable = df_final
    /\ Len(df_migratable) = expected_count
    /\ Range(Column(df_final, "sku"))
         \cap Range(Column(audit.web_without_erp, "sku")) = {}

\* A run that reached handle_anomalies with a non-empty orphan list.
C17_Witness ==
  /\ script = "etl_vins_fix"
  /\ "handle_anomalies" \in ran
  /\ audit.web_without_erp # <<>>
  /\ df_migratable # <<>>

====
